---- MODULE Spec2Model ----
(***************************************************************************)
(* Model of serenity's ModalSubmitInteraction                               *)
(* (src/model/application/interaction/modal.rs): the hand-written           *)
(* Deserialize impl, the derived Serialize impl and the response methods    *)
(* that forward to the HTTP layer.                                          *)
(***************************************************************************)
EXTENDS Integers, Sequences, FiniteSets, TLC

VARIABLES payload, pc, result, encoded, result2, calls

vars == <<payload, pc, result, encoded, result2, calls>>

----------------------------------------------------------------------------
(* Bounds *)

\* largest number of keys of a generated payload that are malformed, out of
\* range or (for a key the decoder demands) missing
MaxDefects == 2

\* largest number of response operations called on one decoded record
MaxOps == 3

----------------------------------------------------------------------------
(* JSON.  A value under a key is [kind, val]: kind is its shape, val its    *)
(* content.  A document is [kind, fields]: an object carries the map from  *)
(* the keys present to their values, any other document carries no keys.   *)

Jnull == [kind |-> "null", val |-> ""]
Jbad == [kind |-> "bool", val |-> "true"]
J(kind, val) == [kind |-> kind, val |-> val]

NoFields == [k \in {} |-> Jnull]
Doc(kind, fields) == [kind |-> kind, fields |-> fields]
Obj(fields) == Doc("object", fields)

\* the thirteen keys the record has a field for, in declaration order
StructFields ==
  <<"id", "application_id", "data", "guild_id", "channel_id", "member", "user",
    "token", "version", "message", "app_permissions", "locale", "guild_locale">>

KnownKeys == {StructFields[i] : i \in 1..Len(StructFields)}

\* keys of the payload the record has no field for
ExtraKeys == {"type", "entitlements"}

\* the type parameter T each key is decoded as
TypeOf(key) ==
  CASE key = "id" -> "InteractionId"
    [] key = "application_id" -> "ApplicationId"
    [] key = "data" -> "ModalSubmitInteractionData"
    [] key = "guild_id" -> "GuildId"
    [] key = "channel_id" -> "ChannelId"
    [] key = "member" -> "Member"
    [] key = "user" -> "User"
    [] key = "token" -> "String"
    [] key = "version" -> "u8"
    [] key = "message" -> "Option<Message>"
    [] key = "app_permissions" -> "Permissions"
    [] key = "locale" -> "String"
    [] key = "guild_locale" -> "String"

\* the fields whose type is an Option
OptionalFields == {"guild_id", "member", "message", "app_permissions", "guild_locale"}

\* the fields carrying #[serde(skip_serializing_if = "Option::is_none")]
SkipIfNone == {"guild_id", "member", "message"}

----------------------------------------------------------------------------
(* Typed values: [ty, v].  A Member keeps the id of its embedded user.     *)

None == [ty |-> "None", v |-> ""]
Typed(ty, v) == [ty |-> ty, v |-> v]

\* m.user.clone()
MemberUser(m) == Typed("User", m.v)

\* the JSON shape a type is decoded from and encoded to
ShapeOf(ty) ==
  CASE ty \in {"InteractionId", "ApplicationId", "GuildId", "ChannelId",
               "String", "Permissions"} -> "string"
    [] ty = "u8" -> "number"
    [] ty = "ModalSubmitInteractionData" -> "data"
    [] ty = "Member" -> "member"
    [] ty = "User" -> "user"
    [] ty = "Message" -> "message"

NoErr == [kind |-> "", what |-> ""]
DeErr(kind, what) == [kind |-> kind, what |-> what]

\* the largest u8
U8Max == 255

\* the integer a JSON number stands for
NumberOf(s) ==
  CASE s = "0" -> 0
    [] s = "1" -> 1
    [] s = "5" -> 5
    [] s = "255" -> 255
    [] s = "256" -> 256

\* T::deserialize(val): Option<X> takes null as None and anything else as X;
\* u8 takes the integers 0..=255 only
deserialize_val(val, T) ==
  IF T = "Option<Message>"
  THEN IF val = Jnull THEN [tag |-> "Ok", val |-> None, err |-> NoErr]
       ELSE IF val.kind = ShapeOf("Message")
       THEN [tag |-> "Ok", val |-> Typed("Message", val.val), err |-> NoErr]
       ELSE [tag |-> "Err", val |-> None, err |-> DeErr("invalid_type", T)]
  ELSE IF val.kind # ShapeOf(T)
  THEN [tag |-> "Err", val |-> None, err |-> DeErr("invalid_type", T)]
  ELSE IF T = "u8" /\ NumberOf(val.val) \notin 0..U8Max
  THEN [tag |-> "Err", val |-> None, err |-> DeErr("invalid_value", T)]
  ELSE [tag |-> "Ok", val |-> Typed(T, val.val), err |-> NoErr]

\* map.remove(key)
Remove(map, key) == [k \in DOMAIN map \ {key} |-> map[k]]

\* remove_from_map_opt: Ok(None) when the key is absent, otherwise the
\* decoded value or its error; the key leaves the map either way
remove_from_map_opt(map, key, T) ==
  IF key \notin DOMAIN map
  THEN [tag |-> "Ok", some |-> FALSE, val |-> None, err |-> NoErr, map |-> map]
  ELSE LET r == deserialize_val(map[key], T)
       IN [tag |-> r.tag, some |-> r.tag = "Ok", val |-> r.val, err |-> r.err,
           map |-> Remove(map, key)]

\* remove_from_map: remove_from_map_opt, with absence turned into
\* Error::missing_field(key)
remove_from_map(map, key, T) ==
  LET r == remove_from_map_opt(map, key, T)
  IN IF r.tag = "Ok" /\ ~r.some
     THEN [r EXCEPT !.tag = "Err", !.err = DeErr("missing_field", key)]
     ELSE r

----------------------------------------------------------------------------
(* ModalSubmitInteraction::deserialize *)

NoRec == [k \in {} |-> None]
DeOk(rec) == [tag |-> "Ok", rec |-> rec, err |-> NoErr]
DeFail(err) == [tag |-> "Err", rec |-> NoRec, err |-> err]

\* JsonMap::deserialize(deserializer): the keys and values of an object,
\* every key kept; any other document is an error
JsonMap_deserialize(doc) ==
  IF doc.kind = "object" THEN [tag |-> "Ok", map |-> doc.fields, err |-> NoErr]
  ELSE [tag |-> "Err", map |-> NoFields, err |-> DeErr("invalid_type", "a map")]

resolve_user_member_first(userOpt, member) ==
  IF member # None THEN [tag |-> "Ok", val |-> MemberUser(member), err |-> NoErr]
  ELSE IF userOpt.some THEN [tag |-> "Ok", val |-> userOpt.val, err |-> NoErr]
  ELSE [tag |-> "Err", val |-> None, err |-> DeErr("custom", "expected user or member")]

resolve_user_default(userOpt, member) ==
  IF userOpt.some THEN [tag |-> "Ok", val |-> userOpt.val, err |-> NoErr]
  ELSE IF member # None THEN [tag |-> "Ok", val |-> MemberUser(member), err |-> NoErr]
  ELSE [tag |-> "Ok", val |-> Typed("User", ""), err |-> NoErr]

\* .or_else(|| member.as_ref().map(|m| m.user.clone()))
\* .ok_or_else(|| DeError::custom("expected user or member"))
resolve_user(userOpt, member) ==
  IF userOpt.some THEN [tag |-> "Ok", val |-> userOpt.val, err |-> NoErr]
  ELSE IF member # None THEN [tag |-> "Ok", val |-> MemberUser(member), err |-> NoErr]
  ELSE [tag |-> "Err", val |-> None, err |-> DeErr("custom", "expected user or member")]

FieldOrder_grouped ==
  <<"id", "application_id", "data", "channel_id", "token", "version", "message",
    "locale", "guild_id", "app_permissions", "guild_locale">>

\* the field initialisers of the struct literal after member and user, in the
\* order they are written and so evaluated
FieldOrder ==
  <<"id", "guild_id", "application_id", "data", "channel_id", "token", "version",
    "message", "app_permissions", "locale", "guild_locale">>

\* the initialisers that call remove_from_map_opt; the others call
\* remove_from_map
ReadWithOpt == {"guild_id", "app_permissions", "guild_locale"}

Put(f, key, v) == [k \in DOMAIN f \cup {key} |-> IF k = key THEN v ELSE f[k]]

build_deny_unknown(fields, map) ==
  IF DOMAIN map # {} THEN DeFail(DeErr("custom", "unknown field")) ELSE DeOk(fields)

\* Ok(Self { .. }): what is left in the map is dropped
build(fields, map) == DeOk(fields)

\* the field initialisers from position i on; the first error returns
RECURSIVE fill(_, _, _)
fill(fields, map, i) ==
  IF i > Len(FieldOrder) THEN build(fields, map)
  ELSE LET key == FieldOrder[i]
           r == IF key \in ReadWithOpt
                THEN remove_from_map_opt(map, key, TypeOf(key))
                ELSE remove_from_map(map, key, TypeOf(key))
       IN IF r.tag = "Err" THEN DeFail(r.err)
          ELSE fill(Put(fields, key, r.val), r.map, i + 1)

deserialize(doc) ==
  LET map == JsonMap_deserialize(doc)
  IN IF map.tag = "Err" THEN DeFail(map.err)
     ELSE
     LET m == remove_from_map_opt(map.map, "member", "Member")
     IN IF m.tag = "Err" THEN DeFail(m.err)
        ELSE LET u == remove_from_map_opt(m.map, "user", "User")
             IN IF u.tag = "Err" THEN DeFail(u.err)
                ELSE LET user == resolve_user(u, m.val)
                     IN IF user.tag = "Err" THEN DeFail(user.err)
                        ELSE fill(Put(Put(NoRec, "member", m.val), "user", user.val),
                                  u.map, 1)

----------------------------------------------------------------------------
(* #[derive(Serialize)] *)

ToJson(t) == IF t = None THEN Jnull ELSE J(ShapeOf(t.ty), t.v)

\* the keys the derived serializer writes for a record
SerializedKeys(rec) == {k \in KnownKeys : ~(k \in SkipIfNone /\ rec[k] = None)}

serialize(rec) == Obj([k \in SerializedKeys(rec) |-> ToJson(rec[k])])


----------------------------------------------------------------------------
(* The HTTP layer and the builders, as seen from the response methods.     *)
(* A method is an async fn: it runs until it awaits the HTTP layer, and    *)
(* resumes when the answer arrives.  ans is the sequence of answers the    *)
(* method has received so far; the operators below give the requests it    *)
(* has sent by then and its result, "Pending" while it awaits an answer.   *)

HttpOutcomes == {"Ok", "Err(Http)", "Err(Json)"}

\* "Message contents must be under 2000 unicode code points"
MessageLimit == 2000

ContentLens == {5, 2001}

MessageIds == {"70"}

Req(route, id, token, message_id) ==
  [route |-> route, id |-> id, token |-> token, message_id |-> message_id]

OpRet(self, reqs, res) == [self |-> self, reqs |-> reqs, result |-> res]

\* Http::get_original_interaction_response, Http::delete_original_interaction_response
\* and Http::delete_followup_message: one request, then the HTTP layer's answer
Http_call(route, id, token, message_id, ans) ==
  [reqs |-> <<Req(route, id, token, message_id)>>,
   result |-> IF ans = <<>> THEN "Pending" ELSE ans[1]]

\* the length check of a builder, made before anything is sent
check_length(builder) ==
  IF builder.content > MessageLimit THEN "Err(Model)" ELSE "Ok"

\* CreateInteractionResponse::execute(http, interaction_id, token)
CreateInteractionResponse_execute(builder, id, token, ans) ==
  IF check_length(builder) # "Ok"
  THEN [reqs |-> <<>>, result |-> "Err(Model)"]
  ELSE Http_call("create_interaction_response", id, token, "", ans)

\* EditInteractionResponse::execute(http, token)
EditInteractionResponse_execute(builder, token, ans) ==
  IF check_length(builder) # "Ok"
  THEN [reqs |-> <<>>, result |-> "Err(Model)"]
  ELSE Http_call("edit_original_interaction_response", "", token, "", ans)

\* CreateInteractionResponseFollowup::execute(http, message_id, token)
CreateInteractionResponseFollowup_execute(builder, message_id, token, ans) ==
  IF check_length(builder) # "Ok"
  THEN [reqs |-> <<>>, result |-> "Err(Model)"]
  ELSE IF message_id = ""
  THEN Http_call("create_followup_message", "", token, "", ans)
  ELSE Http_call("edit_followup_message", "", token, message_id, ans)

----------------------------------------------------------------------------
(* impl ModalSubmitInteraction: every method borrows self immutably *)

get_interaction_response_retry(self, ans) ==
  LET req == Req("get_original_interaction_response", "", self.token.v, "")
  IN IF ans = <<>> THEN OpRet(self, <<req>>, "Pending")
     ELSE IF ans[1] = "Ok" THEN OpRet(self, <<req>>, "Ok")
     ELSE IF Len(ans) = 1 THEN OpRet(self, <<req, req>>, "Pending")
     ELSE OpRet(self, <<req, req>>, ans[2])

get_interaction_response(self, ans) ==
  LET r == Http_call("get_original_interaction_response", "", self.token.v, "", ans)
  IN OpRet(self, r.reqs, r.result)

create_interaction_response(self, builder, ans) ==
  LET r == CreateInteractionResponse_execute(builder, self.id.v, self.token.v, ans)
  IN OpRet(self, r.reqs, r.result)

edit_original_interaction_response(self, builder, ans) ==
  LET r == EditInteractionResponse_execute(builder, self.token.v, ans)
  IN OpRet(self, r.reqs, r.result)

delete_original_interaction_response_take(self, ans) ==
  LET r == Http_call("delete_original_interaction_response", "", self.token.v, "", ans)
  IN OpRet([self EXCEPT !["token"] = Typed("String", "")], r.reqs, r.result)

delete_original_interaction_response(self, ans) ==
  LET r == Http_call("delete_original_interaction_response", "", self.token.v, "", ans)
  IN OpRet(self, r.reqs, r.result)

create_followup_message(self, builder, ans) ==
  LET r == CreateInteractionResponseFollowup_execute(builder, "", self.token.v, ans)
  IN OpRet(self, r.reqs, r.result)

edit_followup_message(self, message_id, builder, ans) ==
  LET r == CreateInteractionResponseFollowup_execute(builder, message_id,
                                                     self.token.v, ans)
  IN OpRet(self, r.reqs, r.result)

delete_followup_message(self, message_id, ans) ==
  LET r == Http_call("delete_followup_message", "", self.token.v, message_id, ans)
  IN OpRet(self, r.reqs, r.result)

\* CreateInteractionResponse::new().kind(InteractionResponseType::DeferredUpdateMessage)
DeferBuilder == [kind |-> "DeferredUpdateMessage", content |-> 0]

defer(self, ans) == create_interaction_response(self, DeferBuilder, ans)

\* the method of a call, run on the answers it has received
Resume(c, self, ans) ==
  LET builder == [kind |-> "Message", content |-> c.content]
  IN CASE c.name = "get_interaction_response" -> get_interaction_response(self, ans)
       [] c.name = "create_interaction_response" ->
            create_interaction_response(self, builder, ans)
       [] c.name = "edit_original_interaction_response" ->
            edit_original_interaction_response(self, builder, ans)
       [] c.name = "delete_original_interaction_response" ->
            delete_original_interaction_response(self, ans)
       [] c.name = "create_followup_message" ->
            create_followup_message(self, builder, ans)
       [] c.name = "edit_followup_message" ->
            edit_followup_message(self, c.mid, builder, ans)
       [] c.name = "delete_followup_message" ->
            delete_followup_message(self, c.mid, ans)
       [] c.name = "defer" -> defer(self, ans)

----------------------------------------------------------------------------
(* Payloads *)

RequiredKeys == {"id", "application_id", "data", "channel_id", "token", "version", "locale"}

GoodValue(key) ==
  CASE key = "id" -> J("string", "1")
    [] key = "application_id" -> J("string", "2")
    [] key = "data" -> J("data", "x")
    [] key = "guild_id" -> J("string", "4")
    [] key = "channel_id" -> J("string", "3")
    [] key = "member" -> J("member", "9")
    [] key = "user" -> J("user", "9")
    [] key = "token" -> J("string", "t")
    [] key = "version" -> J("number", "1")
    [] key = "message" -> J("message", "7")
    [] key = "app_permissions" -> J("string", "2048")
    [] key = "locale" -> J("string", "en-US")
    [] key = "guild_locale" -> J("string", "de")
    [] key = "type" -> J("number", "5")
    [] key = "entitlements" -> J("string", "e")

\* key/value maps in which every key present is well-formed and every key of
\* RequiredKeys is present
BasePayloads ==
  { [k \in RequiredKeys \cup S |->
       IF k = "member" THEN mv ELSE IF k = "message" THEN msg ELSE GoodValue(k)] :
    S \in SUBSET (OptionalFields \cup {"user"} \cup ExtraKeys),
    mv \in {J("member", "9"), J("member", "8")},
    msg \in {GoodValue("message"), Jnull} }

\* a choice of at most MaxDefects keys, each made malformed or removed, or,
\* for version, too large for its type
DefectChoices ==
  { f \in UNION { [D -> {"bad", "absent", "wide"}] :
                  D \in {D \in SUBSET KnownKeys : Cardinality(D) <= MaxDefects} } :
    \A k \in DOMAIN f : f[k] = "wide" => k = "version" }

ApplyDefects(base, f) ==
  [k \in (DOMAIN base \cup DOMAIN f) \ {x \in DOMAIN f : f[x] = "absent"} |->
     IF k \notin DOMAIN f THEN base[k]
     ELSE IF f[k] = "wide" THEN J("number", "256") ELSE Jbad]

\* documents that are not an object
NonObjectDocs == {Doc(kind, NoFields) : kind \in {"null", "array", "bool", "string", "number"}}

\* the payloads of the records the response operations are exercised on
OpsPayloads ==
  { Obj([b EXCEPT !["token"] = J("string", t[1]), !["id"] = J("string", t[2])]) :
    b \in {b \in BasePayloads : DOMAIN b = KnownKeys /\ b["message"] # Jnull
                                /\ b["member"].val = "9"},
    t \in {<<"u", "11">>} }

----------------------------------------------------------------------------
(* State machine *)

NotYet == [tag |-> "None", rec |-> NoRec, err |-> NoErr]
NotEncoded == Doc("", NoFields)

InitRest ==
  /\ pc = "received"
  /\ result = NotYet
  /\ encoded = NotEncoded
  /\ result2 = NotYet
  /\ calls = <<>>

Init ==
  /\ \/ \E base \in BasePayloads, f \in DefectChoices :
          payload = Obj(ApplyDefects(base, f))
     \/ payload \in NonObjectDocs
  /\ InitRest

InitOps == payload \in OpsPayloads /\ InitRest

\* ModalSubmitInteraction::deserialize on the inbound payload
Decode ==
  /\ pc = "received"
  /\ result' = deserialize(payload)
  /\ pc' = "decoded"
  /\ UNCHANGED <<payload, encoded, result2, calls>>

\* the derived Serialize on a decoded record
Encode ==
  /\ pc = "decoded"
  /\ result.tag = "Ok"
  /\ encoded' = serialize(result.rec)
  /\ pc' = "encoded"
  /\ UNCHANGED <<payload, result, result2, calls>>

\* ModalSubmitInteraction::deserialize on the encoded document
Redecode ==
  /\ pc = "encoded"
  /\ result2' = deserialize(encoded)
  /\ pc' = "redecoded"
  /\ UNCHANGED <<payload, result, encoded, calls>>

CanCall == pc = "decoded" /\ result.tag = "Ok" /\ Len(calls) < MaxOps

\* a method is called and runs until it returns or awaits the HTTP layer
Start(name, content, mid, r) ==
  /\ result' = [result EXCEPT !.rec = r.self]
  /\ calls' = Append(calls, [name |-> name, content |-> content, mid |-> mid,
                             ans |-> <<>>, reqs |-> r.reqs, result |-> r.result])
  /\ UNCHANGED <<payload, pc, encoded, result2>>

Builders == [kind : {"Message"}, content : ContentLens]

GetInteractionResponse ==
  /\ CanCall
  /\ Start("get_interaction_response", 0, "",
           get_interaction_response(result.rec, <<>>))

CreateInteractionResponse ==
  /\ CanCall
  /\ \E b \in Builders :
       Start("create_interaction_response", b.content, "",
             create_interaction_response(result.rec, b, <<>>))

EditOriginalInteractionResponse ==
  /\ CanCall
  /\ \E b \in Builders :
       Start("edit_original_interaction_response", b.content, "",
             edit_original_interaction_response(result.rec, b, <<>>))

DeleteOriginalInteractionResponse ==
  /\ CanCall
  /\ Start("delete_original_interaction_response", 0, "",
           delete_original_interaction_response(result.rec, <<>>))

CreateFollowupMessage ==
  /\ CanCall
  /\ \E b \in Builders :
       Start("create_followup_message", b.content, "",
             create_followup_message(result.rec, b, <<>>))

EditFollowupMessage ==
  /\ CanCall
  /\ \E b \in Builders, mid \in MessageIds :
       Start("edit_followup_message", b.content, mid,
             edit_followup_message(result.rec, mid, b, <<>>))

DeleteFollowupMessage ==
  /\ CanCall
  /\ \E mid \in MessageIds :
       Start("delete_followup_message", 0, mid,
             delete_followup_message(result.rec, mid, <<>>))

Defer ==
  /\ CanCall
  /\ Start("defer", 0, "", defer(result.rec, <<>>))

\* the HTTP layer answers the request of a call that awaits it, and the
\* method resumes; calls started meanwhile may be answered before or after
Answer ==
  /\ pc = "decoded"
  /\ \E i \in 1..Len(calls), o \in HttpOutcomes :
       /\ calls[i].result = "Pending"
       /\ LET ans == Append(calls[i].ans, o)
              r == Resume(calls[i], result.rec, ans)
          IN /\ result' = [result EXCEPT !.rec = r.self]
             /\ calls' = [calls EXCEPT ![i] = [@ EXCEPT !.ans = ans, !.reqs = r.reqs,
                                                        !.result = r.result]]
  /\ UNCHANGED <<payload, pc, encoded, result2>>

Next == Decode \/ Encode \/ Redecode

Spec == Init /\ [][Next]_vars

NextOps ==
  \/ Decode
  \/ GetInteractionResponse
  \/ CreateInteractionResponse
  \/ EditOriginalInteractionResponse
  \/ DeleteOriginalInteractionResponse
  \/ CreateFollowupMessage
  \/ EditFollowupMessage
  \/ DeleteFollowupMessage
  \/ Defer
  \/ Answer

SpecOps == InitOps /\ [][NextOps]_vars

----------------------------------------------------------------------------
(* Properties *)

Decoded == pc # "received"

IsObject == payload.kind = "object"

\* the keys and values of the payload
Fields == payload.fields

\* a value the key's type accepts: the right shape and, for version, in range
WellFormed(map, key) ==
  /\ map[key].kind = (IF key = "message" THEN "message" ELSE ShapeOf(TypeOf(key)))
  /\ key = "version" => NumberOf(map[key].val) \in 0..U8Max

AllWellFormed(map) == \A k \in DOMAIN map \cap KnownKeys : WellFormed(map, k)

TheMember(map) == Typed("Member", map["member"].val)

\* C1: a payload with a well-formed user and well-formed id, application_id,
\* data, channel_id, token, version and locale decodes successfully whichever
\* of guild_id, member, app_permissions, message, guild_locale are absent, and
\* every absent one of them is None in the record.
C1_AbsentOptionalsAreValid ==
  (/\ Decoded
   /\ RequiredKeys \cup {"user"} \subseteq DOMAIN Fields
   /\ AllWellFormed(Fields))
  => /\ result.tag = "Ok"
     /\ \A k \in OptionalFields \ DOMAIN Fields : result.rec[k] = None

\* C2: encoding a decoded record omits the key of every absent optional
\* field, and decoding the encoded document gives back an equal record.
C2_RoundTrip ==
  /\ pc \in {"encoded", "redecoded"} =>
       \A k \in OptionalFields :
         result.rec[k] = None => k \notin DOMAIN encoded.fields
  /\ pc = "redecoded" => result2 = result

\* C3: when the payload has a user key, the user of the decoded record is
\* that user, whether or not member is present and whatever member.user is.
C3_ExplicitUserWins ==
  (Decoded /\ result.tag = "Ok" /\ "user" \in DOMAIN Fields)
  => result.rec["user"] = Typed("User", Fields["user"].val)

C3_Witness ==
  /\ pc = "decoded" /\ result.tag = "Ok"
  /\ {"user", "member"} \subseteq DOMAIN Fields
  /\ Fields["member"].val # Fields["user"].val
  /\ result.rec["member"] = TheMember(Fields)

\* C4: a valid payload without user but with member decodes successfully,
\* the record's user is member.user and the record's member is that member.
C4_UserFromMember ==
  (/\ Decoded
   /\ "user" \notin DOMAIN Fields /\ "member" \in DOMAIN Fields
   /\ RequiredKeys \subseteq DOMAIN Fields
   /\ AllWellFormed(Fields))
  => /\ result.tag = "Ok"
     /\ result.rec["user"] = MemberUser(TheMember(Fields))
     /\ result.rec["member"] = TheMember(Fields)

\* C5: a payload (a key/value document) with neither user nor member fails
\* with the "expected user or member" error and yields no record, whatever
\* its other keys are.
C5_NoUserNoMember ==
  (Decoded /\ IsObject /\ DOMAIN Fields \cap {"user", "member"} = {})
  => result = DeFail(DeErr("custom", "expected user or member"))

C5_Witness ==
  /\ pc = "decoded"
  /\ IsObject
  /\ DOMAIN Fields \cap {"user", "member"} = {}
  /\ "id" \notin DOMAIN Fields
  /\ "token" \in DOMAIN Fields /\ Fields["token"] = Jbad
  /\ result.tag = "Err"

\* C6: a payload with a resolvable user, otherwise well-formed, that misses
\* exactly one of id, application_id, data, channel_id, token, version, locale
\* fails with the missing-field error naming that key.
C6_MissingRequiredKeyIsNamed ==
  \A key \in RequiredKeys :
    (/\ Decoded
     /\ IsObject
     /\ DOMAIN Fields \cap {"user", "member"} # {}
     /\ AllWellFormed(Fields)
     /\ RequiredKeys \ DOMAIN Fields = {key})
    => result = DeFail(DeErr("missing_field", key))

Restrict(map, keys) == [k \in DOMAIN map \cap keys |-> map[k]]

\* C7: keys the record has no field for are ignored: the payload decodes to
\* what it decodes to with those keys taken out.
C7_UnknownKeysIgnored ==
  Decoded => result = deserialize(Doc(payload.kind, Restrict(Fields, KnownKeys)))

C7_Witness ==
  /\ pc = "decoded" /\ result.tag = "Ok"
  /\ ExtraKeys \subseteq DOMAIN Fields

DeleteOps == {"delete_original_interaction_response", "delete_followup_message"}

\* C8: a response operation makes at most one request and never a second one
\* after a failure, returns what the HTTP layer answered, returns a validation
\* error only without having made a request, and the two delete operations
\* always make their request and never return a validation error; this holds
\* of every call, whatever other calls are in flight.
C8_SingleForwardedCall ==
  \A i \in 1..Len(calls) :
    LET c == calls[i]
    IN /\ Len(c.reqs) <= 1
       /\ Len(c.ans) <= Len(c.reqs)
       /\ c.result = "Pending" <=> (Len(c.reqs) = 1 /\ c.ans = <<>>)
       /\ Len(c.ans) = 1 => c.result = c.ans[1]
       /\ c.reqs = <<>> <=> c.result = "Err(Model)"
       /\ c.name \in DeleteOps => Len(c.reqs) = 1 /\ c.result # "Err(Model)"

C8_Witness ==
  \E i, j \in 1..Len(calls) :
    /\ i < j
    /\ calls[i].result = "Pending"
    /\ calls[j].name = "delete_followup_message"
    /\ calls[j].result = "Err(Http)"
    /\ Len(calls[j].reqs) = 1

\* C9: after any sequence of response operations, finished or in flight, the
\* record equals the one decoded from the payload, and every request carries
\* the record's token and, for create_interaction_response and defer, the
\* record's id.
C9_RecordImmutable ==
  calls # <<>> =>
    /\ result = deserialize(payload)
    /\ \A i \in 1..Len(calls) : \A n \in 1..Len(calls[i].reqs) :
         /\ calls[i].reqs[n].token = Fields["token"].val
         /\ calls[i].name \in {"create_interaction_response", "defer"}
              => calls[i].reqs[n].id = Fields["id"].val

C9_Witness ==
  /\ Len(calls) = MaxOps
  /\ calls[1].name = "defer" /\ calls[1].result = "Pending"
  /\ calls[2].name = "delete_original_interaction_response"
  /\ calls[2].result = "Err(Http)"
  /\ Fields["token"].val = "u"

\* what makes decoding fail at a key
Defective(map, key) ==
  CASE key = "member" -> key \in DOMAIN map /\ ~WellFormed(map, key)
    [] key = "user" -> IF key \in DOMAIN map THEN ~WellFormed(map, key)
                       ELSE "member" \notin DOMAIN map
    [] key = "message" -> \/ key \notin DOMAIN map
                          \/ map[key] # Jnull /\ ~WellFormed(map, key)
    [] key \in RequiredKeys -> key \notin DOMAIN map \/ ~WellFormed(map, key)
    [] OTHER -> key \in DOMAIN map /\ ~WellFormed(map, key)

\* the error decoding reports when it fails at a key
ErrorOf(map, key) ==
  IF key \in DOMAIN map
  THEN IF map[key].kind = "number" /\ key = "version"
       THEN DeErr("invalid_value", TypeOf(key))
       ELSE DeErr("invalid_type", TypeOf(key))
  ELSE IF key = "user" THEN DeErr("custom", "expected user or member")
  ELSE DeErr("missing_field", key)

FailsFirstIn(order, map) ==
  LET bad == {i \in 1..Len(order) : Defective(map, order[i])}
  IN /\ result.tag = "Err" <=> bad # {}
     /\ bad # {} =>
          result.err = ErrorOf(map, order[CHOOSE i \in bad : \A j \in bad : i <= j])

ClaimedOrder ==
  <<"member", "user", "id", "application_id", "data", "channel_id", "token",
    "version", "message", "locale", "guild_id", "app_permissions", "guild_locale">>

WrittenOrder ==
  <<"member", "user", "id", "guild_id", "application_id", "data", "channel_id",
    "token", "version", "message", "app_permissions", "locale", "guild_locale">>

\* C10 as stated: decoding fails at the first missing-but-required or
\* malformed key in the order member, user, id, application_id, data,
\* channel_id, token, version, message, locale, guild_id, app_permissions,
\* guild_locale, and reports that key's error.
C10_ClaimedOrder == (Decoded /\ IsObject) => FailsFirstIn(ClaimedOrder, Fields)

\* C10 amended: decoding a key/value document fails at the first
\* missing-but-required or malformed key in the order member, user, id,
\* guild_id, application_id, data, channel_id, token, version, message,
\* app_permissions, locale, guild_locale, and reports that key's error.
C10_WrittenOrder == (Decoded /\ IsObject) => FailsFirstIn(WrittenOrder, Fields)

C10_Witness ==
  /\ pc = "decoded"
  /\ "guild_id" \in DOMAIN Fields /\ Fields["guild_id"] = Jbad
  /\ "application_id" \notin DOMAIN Fields
  /\ result = DeFail(DeErr("invalid_type", "GuildId"))

====
